---- MODULE Spec2Model ----
(***************************************************************************)
(* Model of the perception-act loop of GameAgent (agent/agent.py) and of   *)
(* the ActionExecutor it drives (agent/actions.py).                        *)
(*                                                                         *)
(* Time is the value of time.monotonic(), counted in whole model units.    *)
(* One step of the specification Spec is one iteration of GameAgent.run    *)
(* (a tick) or the external setting of the stop event.                     *)
(***************************************************************************)
EXTENDS Integers, Sequences, FiniteSets, TLC

VARIABLES
    config,                 \* AgentConfig (frozen dataclass)
    clock,                  \* latest value read from time.monotonic()
    stop_event,             \* threading.Event shared with the caller
    pc,                     \* where run() is: "loop" or "returned"
    last_llm_ts,            \* GameAgent._last_llm_ts
    last_frame_sig,         \* GameAgent._last_frame_sig (NoSig = None)
    cache,                  \* GameAgent._cache, in dict insertion order
    cooldown_until_ts,      \* GameAgent._cooldown_until_ts
    empty_response_count,   \* GameAgent._empty_response_count
    last_action_time,       \* ActionExecutor._last_action_time
    \* what the most recent tick did (observation only)
    now,                    \* the tick's `now` (agent.py line 189)
    frame_sig,              \* the tick's fingerprint
    outcome,                \* which path of run() the tick took
    lookup,                 \* result of _cached_actions in the tick
    pruned,                 \* entries removed by _prune_cache in the tick
    executed,               \* batches handed to executor.execute in the tick
    emitted,                \* device operations performed in the tick
    rl_log,                 \* the _too_frequent calls made in the tick
    \* the validator exercised on its own (specification SpecParse)
    parse_in,
    parse_out,
    \* the coordinate mapper exercised on its own (specification SpecMap)
    map_in,
    map_out,
    \* the pacing sleep exercised on its own (specification SpecPace)
    pace_in,
    pace_out,
    \* the inference gate exercised on its own (specification SpecGate)
    gate_out,
    \* the window's Start and Stop buttons and the threads they start
    \* (specification SpecUi)
    ui_pc,                  \* where AgentUI.start_agent is
    threads,                \* the state of every agent thread started
    agent_thread,           \* AgentUI.agent_thread (0 = None)
    asked                   \* threads that were alive when Stop was clicked

vars == << config, clock, stop_event, pc, last_llm_ts, last_frame_sig, cache,
           cooldown_until_ts, empty_response_count, last_action_time,
           now, frame_sig, outcome, lookup, pruned, executed, emitted,
           rl_log, parse_in, parse_out, map_in, map_out, pace_in, pace_out,
           gate_out, ui_pc, threads, agent_thread, asked >>

agentVars == << last_llm_ts, last_frame_sig, cache, cooldown_until_ts,
                empty_response_count >>

parseVars == << parse_in, parse_out >>

mapVars == << map_in, map_out >>

paceVars == << pace_in, pace_out >>

uiVars == << ui_pc, threads, agent_thread, asked >>

(* The variables of the parts exercised on their own, the validator's and *)
(* the mapper's aside                                                     *)
soloVars == << paceVars, gate_out, uiVars >>

----------------------------------------------------------------------------
(* Bounds of the model *)

MaxTime == 5
MaxDt == 2
MaxItems == 4

(* Program constants *)

NoSig == -1
MaxActions == 3
ErrorBackoff == 1
EmptyEscapeCount == 3

Min(a, b) == IF a <= b THEN a ELSE b
Max(a, b) == IF a >= b THEN a ELSE b

----------------------------------------------------------------------------
(* Fingerprints: Hamming distance is the population count of the XOR *)

RECURSIVE Xor(_, _)
Xor(a, b) ==
    IF a = 0 /\ b = 0 THEN 0
    ELSE (((a % 2) + (b % 2)) % 2) + (2 * Xor(a \div 2, b \div 2))

RECURSIVE BitCount(_)
BitCount(n) == IF n = 0 THEN 0 ELSE (n % 2) + BitCount(n \div 2)

HammingDistance(a, b) == BitCount(Xor(a, b))

----------------------------------------------------------------------------
(* Decoded JSON values.  A value is a record [k, v]: k is the Python type  *)
(* of the value, v its content.  Text-like fields (type, key) carry a      *)
(* string in v, numeric fields (x, y, duration_s) an integer.              *)

Txt(s) == [k |-> "str", v |-> s]
NoTxt == [k |-> "none", v |-> ""]
ListTxt == [k |-> "list", v |-> ""]
IntTxt == [k |-> "int", v |-> ""]

IntVal(n) == [k |-> "int", v |-> n]
FloatVal(n) == [k |-> "float", v |-> n]
NoNum == [k |-> "none", v |-> 0]
StrNum == [k |-> "str", v |-> 0]

Dict(type, x, y, key, duration_s) ==
    [isdict |-> TRUE, type |-> type, x |-> x, y |-> y, key |-> key,
     duration_s |-> duration_s]

NonDict ==
    [isdict |-> FALSE, type |-> NoTxt, x |-> NoNum, y |-> NoNum,
     key |-> NoTxt, duration_s |-> NoNum]

TypeOnly(t) == Dict(Txt(t), NoNum, NoNum, NoTxt, NoNum)
MoveItem(x, y) == Dict(Txt("move_mouse"), x, y, NoTxt, NoNum)
KeyItem(t, key) == Dict(Txt(t), NoNum, NoNum, key, NoNum)
WaitItem(d) == Dict(Txt("wait"), NoNum, NoNum, NoTxt, d)

ListPayload(items) == [islist |-> TRUE, items |-> items]
NonListPayload == [islist |-> FALSE, items |-> << >>]

(* agent.actions.Action *)
Action(type, x, y, key, duration_s) ==
    [type |-> type, x |-> x, y |-> y, key |-> key, duration_s |-> duration_s]

allowed ==
    {"move_mouse", "click_left", "click_right", "tap_key", "press_key",
     "release_key", "wait"}

KeyTypes == {"press_key", "release_key", "tap_key"}

(* str.strip() of the key strings used in the model *)
Strip(s) == IF s \in {"", " "} THEN "" ELSE s

(* Types whose values cannot be hashed: `x not in allowed` raises TypeError *)
Unhashable == {"list", "dict"}

Raised == [raised |-> TRUE, actions |-> << >>]
Returned(actions) == [raised |-> FALSE, actions |-> actions]

(* The for-loop of parse_actions from item i on, acc = actions so far.     *)
(* The loop is left by `break` as soon as acc holds three actions.         *)
RECURSIVE ParseLoop(_, _, _, _, _)
ParseLoop(items, i, acc, width, height) ==
    IF i > Len(items) \/ Len(acc) >= MaxActions
    THEN Returned(SubSeq(acc, 1, Min(MaxActions, Len(acc))))
    ELSE
      LET item == items[i]
          skip == ParseLoop(items, i + 1, acc, width, height)
          take(a) == ParseLoop(items, i + 1, Append(acc, a), width, height)
          t == item.type
      IN  IF ~item.isdict THEN skip
          ELSE IF t.k \in Unhashable THEN Raised
          ELSE IF ~(t.k = "str" /\ t.v \in allowed) THEN skip
          ELSE IF t.v = "move_mouse" THEN
                 IF item.x.k # "int" \/ item.y.k # "int" THEN skip
                 ELSE IF item.x.v < 0 \/ item.y.v < 0
                         \/ item.x.v >= width \/ item.y.v >= height THEN skip
                 ELSE take(Action(t.v, item.x, item.y, NoTxt, NoNum))
          ELSE IF t.v \in KeyTypes THEN
                 IF item.key.k # "str" \/ Strip(item.key.v) = "" THEN skip
                 ELSE take(Action(t.v, NoNum, NoNum, item.key, NoNum))
          ELSE IF t.v = "wait" THEN
                 IF item.duration_s.k \notin {"int", "float"}
                    \/ item.duration_s.v <= 0 THEN skip
                 ELSE take(Action(t.v, NoNum, NoNum, NoTxt,
                                  FloatVal(item.duration_s.v)))
          ELSE take(Action(t.v, NoNum, NoNum, NoTxt, NoNum))

(* GameAgent.parse_actions, on the payload decoded from the reply *)
ParseActions(payload, width, height) ==
    IF ~payload.islist THEN Returned(<< >>)
    ELSE ParseLoop(payload.items, 1, << >>, width, height)

----------------------------------------------------------------------------
(* The decision cache: a sequence of entries [sig, ts, actions] in the     *)
(* insertion order of the dict.                                            *)

Entry(sig, ts, actions) == [sig |-> sig, ts |-> ts, actions |-> actions]

(* Expiry that lets an entry live one time unit too long *)
ExpiredLate(cached_ts, t) == t - cached_ts > config.cache_ttl_s + 1

(* `now - cached_ts > self.config.cache_ttl_s` *)
Expired(cached_ts, t) == t - cached_ts > config.cache_ttl_s

(* GameAgent._prune_cache *)
PruneCache(c, t) == SelectSeq(c, LAMBDA e : ~Expired(e.ts, t))

PrunedEntries(c, t) == SelectSeq(c, LAMBDA e : Expired(e.ts, t))

Miss == [done |-> TRUE, hit |-> FALSE, sig |-> NoSig, ts |-> 0,
         actions |-> << >>]
Hit(e) == [done |-> TRUE, hit |-> TRUE, sig |-> e.sig, ts |-> e.ts,
           actions |-> e.actions]
NoLookup == [done |-> FALSE, hit |-> FALSE, sig |-> NoSig, ts |-> 0,
             actions |-> << >>]

(* Similarity that excludes the threshold itself *)
SimilarStrict(a, b) == HammingDistance(a, b) < config.frame_change_threshold

(* `(frame_sig ^ sig).bit_count() <= self.config.frame_change_threshold` *)
Similar(a, b) == HammingDistance(a, b) <= config.frame_change_threshold

(* A lookup that knows the exact key only and never scans *)
LookupInExactOnly(c, sig, t) ==
    LET exact == { i \in 1..Len(c) : c[i].sig = sig }
        first(S) == CHOOSE i \in S : \A j \in S : i <= j
    IN  IF exact # {} /\ ~Expired(c[first(exact)].ts, t)
        THEN Hit(c[first(exact)])
        ELSE Miss

(* A lookup that only scans in insertion order, without the exact key *)
(* going first                                                       *)
LookupInScanOnly(c, sig, t) ==
    LET similar == { i \in 1..Len(c) :
                       /\ ~Expired(c[i].ts, t)
                       /\ Similar(sig, c[i].sig) }
        first(S) == CHOOSE i \in S : \A j \in S : i <= j
    IN  IF similar # {} THEN Hit(c[first(similar)]) ELSE Miss

(* The part of _cached_actions after the prune: exact key first, then the  *)
(* scan in insertion order.  The result also names the entry it came from. *)
LookupIn(c, sig, t) ==
    LET exact == { i \in 1..Len(c) : c[i].sig = sig }
        similar == { i \in 1..Len(c) :
                       /\ ~Expired(c[i].ts, t)
                       /\ Similar(sig, c[i].sig) }
        first(S) == CHOOSE i \in S : \A j \in S : i <= j
    IN  IF exact # {} /\ ~Expired(c[first(exact)].ts, t)
        THEN Hit(c[first(exact)])
        ELSE IF similar # {} THEN Hit(c[first(similar)])
        ELSE Miss

(* GameAgent._cached_actions *)
CachedActions(c, sig, t) == LookupIn(PruneCache(c, t), sig, t)

(* A store that stamps the entry one time unit after the tick's `now` *)
StoreStampedLater(c, sig, t, actions) ==
    IF \E i \in 1..Len(c) : c[i].sig = sig
    THEN [ i \in 1..Len(c) |->
             IF c[i].sig = sig THEN Entry(sig, t + 1, actions) ELSE c[i] ]
    ELSE Append(c, Entry(sig, t + 1, actions))

(* A store that keeps only the batches that hold a command *)
StoreNonEmpty(c, sig, t, actions) ==
    IF Len(actions) = 0 THEN c
    ELSE IF \E i \in 1..Len(c) : c[i].sig = sig
    THEN [ i \in 1..Len(c) |->
             IF c[i].sig = sig THEN Entry(sig, t, actions) ELSE c[i] ]
    ELSE Append(c, Entry(sig, t, actions))

(* `self._cache[frame_sig] = (now, actions)` *)
Store(c, sig, t, actions) ==
    IF \E i \in 1..Len(c) : c[i].sig = sig
    THEN [ i \in 1..Len(c) |->
             IF c[i].sig = sig THEN Entry(sig, t, actions) ELSE c[i] ]
    ELSE Append(c, Entry(sig, t, actions))

----------------------------------------------------------------------------
(* The inference gate *)

(* A change detector that reports every frame as changed *)
FrameChangedAlways(sig) == TRUE

(* GameAgent._frame_changed_significantly *)
FrameChangedSignificantly(sig) ==
    IF last_frame_sig = NoSig THEN TRUE
    ELSE HammingDistance(sig, last_frame_sig) >= config.frame_change_threshold

(* A gate that declines while no inference has been made *)
ShouldCallLlmNoFirst(t, sig) ==
    IF t < cooldown_until_ts THEN FALSE
    ELSE IF last_frame_sig = NoSig THEN FALSE
    ELSE FrameChangedSignificantly(sig)

(* A gate that ignores the cooldown *)
ShouldCallLlmNoCooldown(t, sig) ==
    IF last_frame_sig = NoSig THEN TRUE
    ELSE FrameChangedSignificantly(sig)

(* A gate whose escape hatch works: after the interval, three empty *)
(* results in a row force an inference                             *)
ShouldCallLlmEscape(t, sig) ==
    IF t < cooldown_until_ts THEN FALSE
    ELSE IF last_frame_sig = NoSig THEN TRUE
    ELSE IF t - last_llm_ts < config.llm_interval_s
         THEN FrameChangedSignificantly(sig)
    ELSE IF empty_response_count >= EmptyEscapeCount THEN TRUE
    ELSE FrameChangedSignificantly(sig)

(* GameAgent.should_call_llm *)
ShouldCallLlm(t, sig) ==
    IF t < cooldown_until_ts THEN FALSE
    ELSE IF last_frame_sig = NoSig THEN TRUE
    ELSE IF t - last_llm_ts < config.llm_interval_s
         THEN FrameChangedSignificantly(sig)
    ELSE IF empty_response_count >= EmptyEscapeCount
            /\ FrameChangedSignificantly(sig)
         THEN TRUE
    ELSE FrameChangedSignificantly(sig)

----------------------------------------------------------------------------
(* The cooldown *)

HasKeyAction(actions) ==
    \E i \in 1..Len(actions) : actions[i].type \in KeyTypes

CooldownFor(actions) ==
    LET base == IF Len(actions) > 0 THEN config.cooldown_default_s ELSE 0
    IN  IF HasKeyAction(actions) THEN Max(base, config.cooldown_key_tap_s)
        ELSE base

(* A cooldown that is set, not extended *)
ApplyCooldownNoMax(until, actions, t) ==
    IF CooldownFor(actions) > 0 THEN t + CooldownFor(actions) ELSE until

(* GameAgent._apply_cooldown: the new value of _cooldown_until_ts *)
ApplyCooldown(until, actions, t) ==
    IF CooldownFor(actions) > 0
    THEN Max(until, t + CooldownFor(actions))
    ELSE until

----------------------------------------------------------------------------
(* The executor *)

(* The monitor region reported by VisionAnalyzer.monitor_region *)
Monitor == [left |-> 1, top |-> 2, width |-> 6, height |-> 3]

(* p / q rounded down, where the source rounds to nearest (q > 0) *)
RoundDown(p, q) == p \div q

(* round(p / q) as Python rounds: to nearest, ties to even (q > 0) *)
RoundHalfEven(p, q) ==
    LET f == p \div q
        r == p % q
    IN  IF 2 * r < q THEN f
        ELSE IF 2 * r > q THEN f + 1
        ELSE IF f % 2 = 0 THEN f ELSE f + 1

(* A CoordinateMapper: the monitor region and the size of the capture *)
Mapper(monitor, capture_width, capture_height) ==
    [ monitor_left   |-> monitor.left,
      monitor_top    |-> monitor.top,
      monitor_width  |-> monitor.width,
      monitor_height |-> monitor.height,
      capture_width  |-> capture_width,
      capture_height |-> capture_height ]

(* CoordinateMapper.map_to_screen of mapper m *)
MapWith(m, x, y) ==
    << RoundHalfEven(m.monitor_left * m.capture_width + x * m.monitor_width,
                     m.capture_width),
       RoundHalfEven(m.monitor_top * m.capture_height + y * m.monitor_height,
                     m.capture_height) >>

(* map_to_screen of the mapper the running agent's executor holds *)
MapToScreen(x, y) ==
    MapWith(Mapper(Monitor, config.capture_width, config.capture_height),
            x, y)

(* A device operation performed through pynput or time.sleep; idx is the  *)
(* position in the batch of the command that caused it                    *)
Op(name, key, x, y, idx) ==
    [op |-> name, key |-> key, x |-> x, y |-> y, idx |-> idx]

NoTimes == [k \in {} |-> 0]

(* A limiter key shared by all keys of one command type *)
RateKeyByType(type, key) == << type, "" >>

(* The key of _last_action_time: "click_left" or f"press_key:{key}" *)
RateKey(type, key) == << type, key >>

(* A limiter that also denies at the boundary *)
TooFrequentInclusive(last, key, t, min_interval_s) ==
    IF key \in DOMAIN last /\ t - last[key] <= min_interval_s
    THEN [denied |-> TRUE, last |-> last]
    ELSE [denied |-> FALSE,
          last |-> [k \in DOMAIN last \cup {key} |->
                      IF k = key THEN t ELSE last[k]]]

(* ActionExecutor._too_frequent called at time t *)
TooFrequent(last, key, t, min_interval_s) ==
    IF key \in DOMAIN last /\ t - last[key] < min_interval_s
    THEN [denied |-> TRUE, last |-> last]
    ELSE [denied |-> FALSE,
          last |-> [k \in DOMAIN last \cup {key} |->
                      IF k = key THEN t ELSE last[k]]]

(* A call of _too_frequent made for the command at position idx *)
Call(key, t, min_interval_s, before, r, idx) ==
    [key |-> key, t |-> t, min_interval_s |-> min_interval_s,
     before |-> before, denied |-> r.denied, after |-> r.last, idx |-> idx]

(* One iteration of the loop of ActionExecutor.execute, for the command a *)
(* at position i.  st holds the limiter map, the monotonic clock, the     *)
(* operations performed and the limiter calls made so far.                *)
ExecOne(a, i, st) ==
    LET limited(key, interval, op) ==
            LET r == TooFrequent(st.last, key, st.t, interval)
                logged == Append(st.log,
                                 Call(key, st.t, interval, st.last, r, i))
            IN  IF r.denied
                THEN [st EXCEPT !.log = logged]
                ELSE [st EXCEPT !.log = logged, !.last = r.last,
                                !.emitted = Append(@, op)]
    IN  IF config.dry_run THEN st
        ELSE IF a.type = "move_mouse" /\ a.x.k # "none" /\ a.y.k # "none"
          THEN LET xy == MapToScreen(a.x.v, a.y.v)
               IN  [st EXCEPT !.emitted =
                       Append(@, Op("position", "", xy[1], xy[2], i))]
        ELSE IF a.type = "click_left"
          THEN limited(RateKey("click_left", ""),
                       config.click_min_interval_s,
                       Op("click", "left", 0, 0, i))
        ELSE IF a.type = "click_right"
          THEN limited(RateKey("click_right", ""),
                       config.click_min_interval_s,
                       Op("click", "right", 0, 0, i))
        ELSE IF a.type = "press_key" /\ a.key.k # "none"
          THEN limited(RateKey("press_key", a.key.v),
                       config.key_min_interval_s,
                       Op("press", a.key.v, 0, 0, i))
        ELSE IF a.type = "release_key" /\ a.key.k # "none"
          THEN limited(RateKey("release_key", a.key.v),
                       config.key_min_interval_s,
                       Op("release", a.key.v, 0, 0, i))
        ELSE IF a.type = "wait" /\ a.duration_s.k # "none"
                /\ a.duration_s.v # 0
          THEN [st EXCEPT !.t = @ + a.duration_s.v,
                          !.emitted =
                             Append(@, Op("sleep", "", a.duration_s.v, 0, i))]
        ELSE st

(* A loop that leaves the batch at the first command its limiter denies *)
RECURSIVE ExecLoopBreaks(_, _, _)
ExecLoopBreaks(actions, i, st) ==
    IF i > Len(actions) THEN st
    ELSE LET after == ExecOne(actions[i], i, st)
         IN  IF Len(after.log) > Len(st.log)
                  /\ after.log[Len(after.log)].denied
             THEN after
             ELSE ExecLoopBreaks(actions, i + 1, after)

(* The loop of ActionExecutor.execute from the command at position i on *)
RECURSIVE ExecLoop(_, _, _)
ExecLoop(actions, i, st) ==
    IF i > Len(actions) THEN st
    ELSE ExecLoop(actions, i + 1, ExecOne(actions[i], i, st))

(* ActionExecutor.execute(actions), entered at time t *)
Execute(actions, t) ==
    ExecLoop(actions, 1,
             [last |-> last_action_time, t |-> t, emitted |-> << >>,
              log |-> << >>])

----------------------------------------------------------------------------
(* Configurations, frames and replies the model runs with *)

(* The two cooldown settings: none (zero default, negative key cooldown)  *)
(* and a key cooldown longer than the default one                         *)
Cooldowns ==
    { [default_s |-> 0, key_tap_s |-> -1],
      [default_s |-> 1, key_tap_s |-> 3] }

Config(threshold, ttl, cd, dry) ==
    [ frame_change_threshold |-> threshold,
      cache_ttl_s            |-> ttl,
      llm_interval_s         |-> 2,
      cooldown_default_s     |-> cd.default_s,
      cooldown_key_tap_s     |-> cd.key_tap_s,
      dry_run                |-> dry,
      click_min_interval_s   |-> 1,
      key_min_interval_s     |-> 2,
      capture_width          |-> 4,
      capture_height         |-> 3 ]

Configs ==
    { Config(threshold, ttl, cd, dry) :
         threshold \in {1, 2}, ttl \in {0, 2}, cd \in Cooldowns,
         dry \in BOOLEAN }

(* Fingerprints of the frames the capture delivers *)
FrameSigs == {0, 1, 3}

(* Decoded replies of the inference collaborator *)
Replies ==
    { NonListPayload,
      ListPayload(<< >>),
      ListPayload(<< TypeOnly("click_left") >>),
      ListPayload(<< KeyItem("press_key", Txt("e")), TypeOnly("unknown") >>),
      ListPayload(<< Dict(ListTxt, NoNum, NoNum, NoTxt, NoNum) >>) }

NoParse == [payload |-> NonListPayload, width |-> 0, height |-> 0]
NoResult == [done |-> FALSE, raised |-> FALSE, actions |-> << >>]

NoMapInput == [mapper |-> Mapper(Monitor, 4, 3), x |-> 0, y |-> 0]
NoMapOutput == [done |-> FALSE, xy |-> << 0, 0 >>]

NoPaceInput == [loop_delay_s |-> 1, loop_start |-> 0, elapsed |-> 0]
NoPaceOutput == [done |-> FALSE, slept |-> 0, next_start |-> 0]
NoGateOutput == [done |-> FALSE, result |-> FALSE]
NoThreads == << >>

(* The parts exercised on their own are idle *)
SoloIdle ==
    /\ pace_in = NoPaceInput
    /\ pace_out = NoPaceOutput
    /\ gate_out = NoGateOutput
    /\ ui_pc = "idle"
    /\ threads = NoThreads
    /\ agent_thread = 0
    /\ asked = {}

----------------------------------------------------------------------------
(* A loop that keeps ticking whether or not the stop event is set *)
LoopConditionIgnoresStop == pc = "loop"

(* `while not self.stop_event.is_set()`: run() is at the top of its loop  *)
(* and finds the event clear                                              *)
LoopCondition == pc = "loop" /\ ~stop_event

(* A counter that an inference with a non-empty batch leaves alone *)
NextEmptyCountNoReset(count, actions) ==
    IF Len(actions) > 0 THEN count ELSE count + 1

(* run(), lines 239-243: the empty-result counter after an inference *)
NextEmptyCount(count, actions) ==
    IF Len(actions) > 0 THEN 0 ELSE count + 1

(* GameAgent.__init__ and ActionExecutor.__init__ *)
Init ==
    /\ config \in Configs
    /\ clock = 0
    /\ stop_event = FALSE
    /\ pc = "loop"
    /\ last_llm_ts = 0
    /\ last_frame_sig = NoSig
    /\ cache = << >>
    /\ cooldown_until_ts = 0
    /\ empty_response_count = 0
    /\ last_action_time = NoTimes
    /\ now = 0
    /\ frame_sig = NoSig
    /\ outcome = "none"
    /\ lookup = NoLookup
    /\ pruned = << >>
    /\ executed = << >>
    /\ emitted = << >>
    /\ rl_log = << >>
    /\ parse_in = NoParse
    /\ parse_out = NoResult
    /\ map_in = NoMapInput
    /\ map_out = NoMapOutput
    /\ SoloIdle

(* vision.capture() raises: the tick ends in the except clause before     *)
(* `now` is read                                                          *)
TickCaptureError(dt) ==
    /\ LoopCondition
    /\ clock + dt <= MaxTime
    /\ clock' = clock + dt + ErrorBackoff
    /\ now' = clock + dt
    /\ frame_sig' = NoSig
    /\ outcome' = "capture_error"
    /\ lookup' = NoLookup
    /\ pruned' = << >>
    /\ executed' = << >>
    /\ emitted' = << >>
    /\ rl_log' = << >>
    /\ UNCHANGED << config, stop_event, pc, mapVars, soloVars, agentVars,
                    last_action_time,
                    parseVars >>

(* A hit that re-stores the entry it returned, refreshing its timestamp *)
TickHitRefreshes(dt, sig) ==
    LET t == clock + dt
        r == CachedActions(cache, sig, t)
        ex == Execute(r.actions, t)
    IN  /\ LoopCondition
        /\ t <= MaxTime
        /\ r.hit
        /\ cache' = Store(PruneCache(cache, t), r.sig, t, r.actions)
        /\ cooldown_until_ts' = ApplyCooldown(cooldown_until_ts, r.actions, t)
        /\ last_action_time' = ex.last
        /\ clock' = ex.t
        /\ now' = t
        /\ frame_sig' = sig
        /\ outcome' = "hit"
        /\ lookup' = r
        /\ pruned' = PrunedEntries(cache, t)
        /\ executed' = << r.actions >>
        /\ emitted' = ex.emitted
        /\ rl_log' = ex.log
        /\ UNCHANGED << config, stop_event, pc, mapVars, soloVars, last_llm_ts,
                        last_frame_sig,
                        empty_response_count, parseVars >>

(* run(), lines 189-203: the lookup hits *)
TickHit(dt, sig) ==
    LET t == clock + dt
        r == CachedActions(cache, sig, t)
        ex == Execute(r.actions, t)
    IN  /\ LoopCondition
        /\ t <= MaxTime
        /\ r.hit
        /\ cache' = PruneCache(cache, t)
        /\ cooldown_until_ts' = ApplyCooldown(cooldown_until_ts, r.actions, t)
        /\ last_action_time' = ex.last
        /\ clock' = ex.t
        /\ now' = t
        /\ frame_sig' = sig
        /\ outcome' = "hit"
        /\ lookup' = r
        /\ pruned' = PrunedEntries(cache, t)
        /\ executed' = << r.actions >>
        /\ emitted' = ex.emitted
        /\ rl_log' = ex.log
        /\ UNCHANGED << config, stop_event, pc, mapVars, soloVars, last_llm_ts,
                        last_frame_sig,
                        empty_response_count, parseVars >>

(* A skipped tick that records its frame as the last-inferred one *)
TickSkipRecordsSig(dt, sig) ==
    LET t == clock + dt
        r == CachedActions(cache, sig, t)
    IN  /\ LoopCondition
        /\ t <= MaxTime
        /\ ~r.hit
        /\ ~ShouldCallLlm(t, sig)
        /\ last_frame_sig' = sig
        /\ cache' = PruneCache(cache, t)
        /\ clock' = t
        /\ now' = t
        /\ frame_sig' = sig
        /\ outcome' = "skip"
        /\ lookup' = r
        /\ pruned' = PrunedEntries(cache, t)
        /\ executed' = << >>
        /\ emitted' = << >>
        /\ rl_log' = << >>
        /\ UNCHANGED << config, stop_event, pc, mapVars, soloVars, last_llm_ts,
                        cooldown_until_ts, empty_response_count,
                        last_action_time, parseVars >>

(* run(), lines 205-211: the lookup misses and the gate declines *)
TickSkip(dt, sig) ==
    LET t == clock + dt
        r == CachedActions(cache, sig, t)
    IN  /\ LoopCondition
        /\ t <= MaxTime
        /\ ~r.hit
        /\ ~ShouldCallLlm(t, sig)
        /\ cache' = PruneCache(cache, t)
        /\ clock' = t
        /\ now' = t
        /\ frame_sig' = sig
        /\ outcome' = "skip"
        /\ lookup' = r
        /\ pruned' = PrunedEntries(cache, t)
        /\ executed' = << >>
        /\ emitted' = << >>
        /\ rl_log' = << >>
        /\ UNCHANGED << config, stop_event, pc, mapVars, soloVars, last_llm_ts,
                        last_frame_sig,
                        cooldown_until_ts, empty_response_count,
                        last_action_time, parseVars >>

(* An aborted tick that stamps the inference time before the call fails *)
TickAbortedStamps(dt, sig, kind) ==
    LET t == clock + dt
        r == CachedActions(cache, sig, t)
    IN  /\ LoopCondition
        /\ t <= MaxTime
        /\ ~r.hit
        /\ ShouldCallLlm(t, sig)
        /\ last_llm_ts' = t
        /\ cache' = PruneCache(cache, t)
        /\ clock' = t + ErrorBackoff
        /\ now' = t
        /\ frame_sig' = sig
        /\ outcome' = kind
        /\ lookup' = r
        /\ pruned' = PrunedEntries(cache, t)
        /\ executed' = << >>
        /\ emitted' = << >>
        /\ rl_log' = << >>
        /\ UNCHANGED << config, stop_event, pc, mapVars, soloVars,
                        last_frame_sig,
                        cooldown_until_ts, empty_response_count,
                        last_action_time, parseVars >>

(* An aborted tick whose exception leaves run() instead of being caught *)
TickAbortedPropagates(dt, sig, kind) ==
    LET t == clock + dt
        r == CachedActions(cache, sig, t)
    IN  /\ LoopCondition
        /\ t <= MaxTime
        /\ ~r.hit
        /\ ShouldCallLlm(t, sig)
        /\ pc' = "returned"
        /\ cache' = PruneCache(cache, t)
        /\ clock' = t
        /\ now' = t
        /\ frame_sig' = sig
        /\ outcome' = kind
        /\ lookup' = r
        /\ pruned' = PrunedEntries(cache, t)
        /\ executed' = << >>
        /\ emitted' = << >>
        /\ rl_log' = << >>
        /\ UNCHANGED << config, stop_event, mapVars, soloVars, last_llm_ts,
                        last_frame_sig, cooldown_until_ts,
                        empty_response_count, last_action_time, parseVars >>

(* The gate approves and the tick ends in the except clause: `kind` is    *)
(* "llm_error" when ollama.generate raises, "parse_error" when            *)
(* parse_actions does                                                     *)
TickAborted(dt, sig, kind) ==
    LET t == clock + dt
        r == CachedActions(cache, sig, t)
    IN  /\ LoopCondition
        /\ t <= MaxTime
        /\ ~r.hit
        /\ ShouldCallLlm(t, sig)
        /\ cache' = PruneCache(cache, t)
        /\ clock' = t + ErrorBackoff
        /\ now' = t
        /\ frame_sig' = sig
        /\ outcome' = kind
        /\ lookup' = r
        /\ pruned' = PrunedEntries(cache, t)
        /\ executed' = << >>
        /\ emitted' = << >>
        /\ rl_log' = << >>
        /\ UNCHANGED << config, stop_event, pc, mapVars, soloVars, last_llm_ts,
                        last_frame_sig,
                        cooldown_until_ts, empty_response_count,
                        last_action_time, parseVars >>

TickLlmError(dt, sig) == TickAborted(dt, sig, "llm_error")

TickParseError(dt, sig, reply) ==
    /\ ParseActions(reply, config.capture_width, config.capture_height).raised
    /\ TickAborted(dt, sig, "parse_error")

(* run(), lines 213-253: the gate approves and the reply is parsed *)
TickInfer(dt, sig, reply) ==
    LET t == clock + dt
        r == CachedActions(cache, sig, t)
        parsed == ParseActions(reply, config.capture_width,
                               config.capture_height)
        actions == parsed.actions
        ex == Execute(actions, t)
    IN  /\ LoopCondition
        /\ t <= MaxTime
        /\ ~r.hit
        /\ ShouldCallLlm(t, sig)
        /\ ~parsed.raised
        /\ last_action_time' = ex.last
        /\ cache' = Store(PruneCache(cache, t), sig, t, actions)
        /\ last_llm_ts' = t
        /\ last_frame_sig' = sig
        /\ empty_response_count' =
               NextEmptyCount(empty_response_count, actions)
        /\ cooldown_until_ts' =
               IF Len(actions) > 0
               THEN ApplyCooldown(cooldown_until_ts, actions, t)
               ELSE cooldown_until_ts
        /\ clock' = ex.t
        /\ now' = t
        /\ frame_sig' = sig
        /\ outcome' = "infer"
        /\ lookup' = r
        /\ pruned' = PrunedEntries(cache, t)
        /\ executed' = << actions >>
        /\ emitted' = ex.emitted
        /\ rl_log' = ex.log
        /\ UNCHANGED << config, stop_event, pc, mapVars, soloVars, parseVars >>

(* The owner of the stop event sets it *)
SetStop ==
    /\ ~stop_event
    /\ stop_event' = TRUE
    /\ UNCHANGED << config, clock, pc, agentVars, last_action_time, now,
                    frame_sig, outcome, lookup, pruned, executed, emitted,
                    rl_log, parseVars, mapVars, soloVars >>

(* run() polls the event at the top of the loop, finds it set and returns *)
RunReturns ==
    /\ pc = "loop"
    /\ stop_event
    /\ pc' = "returned"
    /\ UNCHANGED << config, clock, stop_event, agentVars, last_action_time,
                    now, frame_sig, outcome, lookup, pruned, executed,
                    emitted, rl_log, parseVars, mapVars, soloVars >>

Next ==
    \/ \E dt \in 1..MaxDt : TickCaptureError(dt)
    \/ \E dt \in 1..MaxDt, sig \in FrameSigs : TickHit(dt, sig)
    \/ \E dt \in 1..MaxDt, sig \in FrameSigs : TickSkip(dt, sig)
    \/ \E dt \in 1..MaxDt, sig \in FrameSigs : TickLlmError(dt, sig)
    \/ \E dt \in 1..MaxDt, sig \in FrameSigs, reply \in Replies :
          TickParseError(dt, sig, reply)
    \/ \E dt \in 1..MaxDt, sig \in FrameSigs, reply \in Replies :
          TickInfer(dt, sig, reply)
    \/ SetStop
    \/ RunReturns

Spec == Init /\ [][Next]_vars

----------------------------------------------------------------------------
(* The validator on its own: Init draws a decoded reply and a frame size,  *)
(* ParseStep applies parse_actions to them.                                *)

ParseItems ==
    { NonDict,
      TypeOnly("click_left"),
      TypeOnly("unknown"),
      Dict(ListTxt, NoNum, NoNum, NoTxt, NoNum),
      MoveItem(IntVal(1), IntVal(2)),
      MoveItem(IntVal(4), IntVal(1)),
      MoveItem(FloatVal(1), IntVal(1)),
      KeyItem("press_key", Txt("e")),
      KeyItem("release_key", Txt(" ")),
      WaitItem(FloatVal(1)),
      WaitItem(IntVal(0)) }

RECURSIVE SeqsUpTo(_, _)
SeqsUpTo(S, n) ==
    IF n = 0 THEN { << >> }
    ELSE LET shorter == SeqsUpTo(S, n - 1)
         IN  shorter \cup { Append(q, x) : q \in shorter, x \in S }

(* The reply of tests/test_agent.py (durations in half seconds) *)
TestPayload ==
    ListPayload(<< MoveItem(IntVal(10), IntVal(20)),
                   MoveItem(IntVal(999), IntVal(20)),
                   KeyItem("press_key", Txt("1")),
                   KeyItem("release_key", Txt("")),
                   TypeOnly("click_left"),
                   WaitItem(FloatVal(1)),
                   TypeOnly("unknown") >>)

(* The inputs of parse_actions with replies of at most n elements *)
ParseInputs(n) ==
    { [payload |-> ListPayload(q), width |-> 4, height |-> 3] :
         q \in SeqsUpTo(ParseItems, n) }
    \cup { [payload |-> NonListPayload, width |-> 4, height |-> 3],
           [payload |-> TestPayload, width |-> 100, height |-> 80] }

InitParse ==
    /\ config \in { c \in Configs : c.dry_run /\ c.frame_change_threshold = 1
                                    /\ c.cache_ttl_s = 2
                                    /\ c.cooldown_default_s = 1
                                    /\ c.cooldown_key_tap_s = 3 }
    /\ clock = 0
    /\ stop_event = FALSE
    /\ pc = "loop"
    /\ last_llm_ts = 0
    /\ last_frame_sig = NoSig
    /\ cache = << >>
    /\ cooldown_until_ts = 0
    /\ empty_response_count = 0
    /\ last_action_time = NoTimes
    /\ now = 0
    /\ frame_sig = NoSig
    /\ outcome = "none"
    /\ lookup = NoLookup
    /\ pruned = << >>
    /\ executed = << >>
    /\ emitted = << >>
    /\ rl_log = << >>
    /\ parse_in \in ParseInputs(MaxItems)
    /\ parse_out = NoResult
    /\ map_in = NoMapInput
    /\ map_out = NoMapOutput
    /\ SoloIdle

ParseStep ==
    /\ ~parse_out.done
    /\ LET r == ParseActions(parse_in.payload, parse_in.width,
                             parse_in.height)
       IN  parse_out' = [done |-> TRUE, raised |-> r.raised,
                         actions |-> r.actions]
    /\ UNCHANGED << config, clock, stop_event, pc, agentVars,
                    last_action_time, now, frame_sig, outcome, lookup,
                    pruned, executed, emitted, rl_log, parse_in, mapVars,
                    soloVars >>

NextParse == ParseStep

SpecParse == InitParse /\ [][NextParse]_vars

----------------------------------------------------------------------------
(* The executor on its own: ExecStep hands a batch to execute() at a later *)
(* reading of the clock.                                                   *)

ClickLeft == Action("click_left", NoNum, NoNum, NoTxt, NoNum)
ClickRight == Action("click_right", NoNum, NoNum, NoTxt, NoNum)
PressKey(key) == Action("press_key", NoNum, NoNum, Txt(key), NoNum)
ReleaseKey(key) == Action("release_key", NoNum, NoNum, Txt(key), NoNum)
TapKey(key) == Action("tap_key", NoNum, NoNum, Txt(key), NoNum)
MoveMouse(x, y) == Action("move_mouse", IntVal(x), IntVal(y), NoTxt, NoNum)
Wait(d) == Action("wait", NoNum, NoNum, NoTxt, FloatVal(d))

(* Batches as parse_actions returns them: at most three valid commands *)
ExecBatches ==
    { << >>,
      << ClickLeft, ClickLeft, ClickRight >>,
      << ClickLeft, Wait(1), ClickLeft >>,
      << PressKey("e"), PressKey("e"), MoveMouse(1, 1) >>,
      << PressKey("e"), PressKey("e"), PressKey("f") >>,
      << PressKey("f"), ReleaseKey("e") >>,
      << MoveMouse(3, 2), TapKey("e"), ClickRight >> }

InitExec ==
    /\ config \in { c \in Configs : c.frame_change_threshold = 1
                                    /\ c.cache_ttl_s = 2
                                    /\ c.cooldown_default_s = 1 }
    /\ clock = 0
    /\ stop_event = FALSE
    /\ pc = "loop"
    /\ last_llm_ts = 0
    /\ last_frame_sig = NoSig
    /\ cache = << >>
    /\ cooldown_until_ts = 0
    /\ empty_response_count = 0
    /\ last_action_time = NoTimes
    /\ now = 0
    /\ frame_sig = NoSig
    /\ outcome = "none"
    /\ lookup = NoLookup
    /\ pruned = << >>
    /\ executed = << >>
    /\ emitted = << >>
    /\ rl_log = << >>
    /\ parse_in = NoParse
    /\ parse_out = NoResult
    /\ map_in = NoMapInput
    /\ map_out = NoMapOutput
    /\ SoloIdle

ExecStep(dt, batch) ==
    LET t == clock + dt
        ex == Execute(batch, t)
    IN  /\ t <= MaxTime
        /\ last_action_time' = ex.last
        /\ clock' = ex.t
        /\ now' = t
        /\ executed' = << batch >>
        /\ emitted' = ex.emitted
        /\ rl_log' = ex.log
        /\ UNCHANGED << config, stop_event, pc, agentVars, frame_sig,
                        outcome, lookup, pruned, parseVars, mapVars, soloVars >>

NextExec == \E dt \in 1..MaxDt, batch \in ExecBatches : ExecStep(dt, batch)

SpecExec == InitExec /\ [][NextExec]_vars

----------------------------------------------------------------------------
(* The coordinate mapper on its own: Init draws a mapper and a point of    *)
(* the capture, MapStep applies map_to_screen to them.                     *)

(* The mapper and the point of tests/test_actions.py *)
TestMapInput ==
    [mapper |-> Mapper([left |-> 100, top |-> 200, width |-> 1000,
                        height |-> 500], 500, 250),
     x |-> 250, y |-> 125]

(* Monitors at positive, negative and zero offsets, scaled up and 1:1 *)
MapMappers ==
    { Mapper(Monitor, 4, 3),
      Mapper([left |-> -2, top |-> -1, width |-> 5, height |-> 7], 4, 3),
      Mapper([left |-> 0, top |-> 0, width |-> 8, height |-> 6], 5, 4),
      Mapper([left |-> 3, top |-> 1, width |-> 4, height |-> 3], 4, 3) }

(* The points parse_actions lets through: inside the capture *)
MapInputs ==
    { [mapper |-> m, x |-> x, y |-> y] :
         m \in MapMappers, x \in 0..4, y \in 0..3 }

InitMap ==
    /\ config \in { c \in Configs : c.dry_run /\ c.frame_change_threshold = 1
                                    /\ c.cache_ttl_s = 2
                                    /\ c.cooldown_default_s = 1 }
    /\ clock = 0
    /\ stop_event = FALSE
    /\ pc = "loop"
    /\ last_llm_ts = 0
    /\ last_frame_sig = NoSig
    /\ cache = << >>
    /\ cooldown_until_ts = 0
    /\ empty_response_count = 0
    /\ last_action_time = NoTimes
    /\ now = 0
    /\ frame_sig = NoSig
    /\ outcome = "none"
    /\ lookup = NoLookup
    /\ pruned = << >>
    /\ executed = << >>
    /\ emitted = << >>
    /\ rl_log = << >>
    /\ parse_in = NoParse
    /\ parse_out = NoResult
    /\ map_in \in { i \in MapInputs : /\ i.x < i.mapper.capture_width
                                      /\ i.y < i.mapper.capture_height }
                     \cup { TestMapInput }
    /\ map_out = NoMapOutput
    /\ SoloIdle

MapStep ==
    /\ ~map_out.done
    /\ map_out' = [done |-> TRUE,
                   xy |-> MapWith(map_in.mapper, map_in.x, map_in.y)]
    /\ UNCHANGED << config, clock, stop_event, pc, agentVars,
                    last_action_time, now, frame_sig, outcome, lookup,
                    pruned, executed, emitted, rl_log, parseVars, map_in,
                    soloVars >>

NextMap == MapStep

SpecMap == InitMap /\ [][NextMap]_vars

----------------------------------------------------------------------------
(* The pacing sleep on its own: Init draws the tick cadence, the start of  *)
(* a tick and the time the tick took, PaceStep applies _sleep_remaining.   *)

(* A pacing that sleeps the whole cadence whatever the tick took *)
SleepRemainingFixed(loop_delay_s, elapsed) ==
    IF loop_delay_s > 0 THEN loop_delay_s ELSE 0

(* The time GameAgent._sleep_remaining sleeps (0: time.sleep not called) *)
SleepRemaining(loop_delay_s, elapsed) ==
    LET remaining == loop_delay_s - elapsed
    IN  IF remaining > 0 THEN remaining ELSE 0

PaceInputs ==
    { [loop_delay_s |-> d, loop_start |-> s, elapsed |-> e] :
         d \in -1..3, s \in 0..MaxDt, e \in 0..MaxTime }

InitPace ==
    /\ config \in { c \in Configs : c.dry_run /\ c.frame_change_threshold = 1
                                    /\ c.cache_ttl_s = 2
                                    /\ c.cooldown_default_s = 1 }
    /\ clock = 0
    /\ stop_event = FALSE
    /\ pc = "loop"
    /\ last_llm_ts = 0
    /\ last_frame_sig = NoSig
    /\ cache = << >>
    /\ cooldown_until_ts = 0
    /\ empty_response_count = 0
    /\ last_action_time = NoTimes
    /\ now = 0
    /\ frame_sig = NoSig
    /\ outcome = "none"
    /\ lookup = NoLookup
    /\ pruned = << >>
    /\ executed = << >>
    /\ emitted = << >>
    /\ rl_log = << >>
    /\ parse_in = NoParse
    /\ parse_out = NoResult
    /\ map_in = NoMapInput
    /\ map_out = NoMapOutput
    /\ pace_in \in PaceInputs
    /\ pace_out = NoPaceOutput
    /\ gate_out = NoGateOutput
    /\ ui_pc = "idle"
    /\ threads = NoThreads
    /\ agent_thread = 0
    /\ asked = {}

(* The tick ends with _sleep_remaining(loop_start); time.sleep returns    *)
(* after the time asked for or `late` later, and the next tick starts     *)
PaceStep(late) ==
    /\ ~pace_out.done
    /\ LET slept == SleepRemaining(pace_in.loop_delay_s, pace_in.elapsed)
       IN  pace_out' =
              [done |-> TRUE, slept |-> slept,
               next_start |-> pace_in.loop_start + pace_in.elapsed
                                + slept + (IF slept > 0 THEN late ELSE 0)]
    /\ UNCHANGED << config, clock, stop_event, pc, agentVars,
                    last_action_time, now, frame_sig, outcome, lookup,
                    pruned, executed, emitted, rl_log, parseVars, mapVars,
                    pace_in, gate_out, uiVars >>

NextPace == \E late \in 0..1 : PaceStep(late)

SpecPace == InitPace /\ [][NextPace]_vars

----------------------------------------------------------------------------
(* The cache lookup on its own: Init draws a cache, any dict of entries    *)
(* whose timestamps are in the past, LookupStep applies _cached_actions.   *)

(* The batch stored under each fingerprint *)
LookupBatch(sig) ==
    IF sig = 0 THEN << ClickLeft >>
    ELSE IF sig = 1 THEN << >>
    ELSE << PressKey("e") >>

(* The dicts of at most n entries: every key once, in any insertion order *)
LookupCaches(n) ==
    { q \in SeqsUpTo({ Entry(sig, ts, LookupBatch(sig)) :
                          sig \in FrameSigs, ts \in 0..MaxDt }, n) :
         \A i, j \in 1..Len(q) : q[i].sig = q[j].sig => i = j }

InitLookup ==
    /\ config \in { c \in Configs : c.dry_run /\ c.cooldown_default_s = 1 }
    /\ clock = 0
    /\ stop_event = FALSE
    /\ pc = "loop"
    /\ last_llm_ts = 0
    /\ last_frame_sig = NoSig
    /\ cache \in LookupCaches(Cardinality(FrameSigs))
    /\ cooldown_until_ts = 0
    /\ empty_response_count = 0
    /\ last_action_time = NoTimes
    /\ now = 0
    /\ frame_sig = NoSig
    /\ outcome = "none"
    /\ lookup = NoLookup
    /\ pruned = << >>
    /\ executed = << >>
    /\ emitted = << >>
    /\ rl_log = << >>
    /\ parse_in = NoParse
    /\ parse_out = NoResult
    /\ map_in = NoMapInput
    /\ map_out = NoMapOutput
    /\ SoloIdle

(* _cached_actions(sig, t) at a time t no earlier than any entry's *)
LookupStep(sig, t) ==
    /\ ~lookup.done
    /\ \A i \in 1..Len(cache) : cache[i].ts <= t
    /\ lookup' = CachedActions(cache, sig, t)
    /\ cache' = PruneCache(cache, t)
    /\ pruned' = PrunedEntries(cache, t)
    /\ now' = t
    /\ frame_sig' = sig
    /\ clock' = t
    /\ UNCHANGED << config, stop_event, pc, last_llm_ts, last_frame_sig,
                    cooldown_until_ts, empty_response_count,
                    last_action_time, outcome, executed, emitted, rl_log,
                    parseVars, mapVars, soloVars >>

NextLookup == \E sig \in FrameSigs, t \in 1..MaxTime : LookupStep(sig, t)

SpecLookup == InitLookup /\ [][NextLookup]_vars

----------------------------------------------------------------------------
(* The inference gate on its own: Init draws the fields should_call_llm    *)
(* reads, GateStep applies it to a fingerprint at a later time.            *)

GateConfigs ==
    { [c EXCEPT !.llm_interval_s = i] :
         c \in { d \in Configs : d.dry_run /\ d.cache_ttl_s = 2
                                 /\ d.cooldown_default_s = 1 },
         i \in {0, 2, MaxTime + 1} }

InitGate ==
    /\ config \in GateConfigs
    /\ clock = 0
    /\ stop_event = FALSE
    /\ pc = "loop"
    /\ last_llm_ts \in 0..MaxDt
    /\ last_frame_sig \in FrameSigs \cup {NoSig}
    /\ cache = << >>
    /\ cooldown_until_ts \in {0, MaxDt + 1}
    /\ empty_response_count \in {0, EmptyEscapeCount}
    /\ last_frame_sig = NoSig
          => /\ last_llm_ts = 0
             /\ cooldown_until_ts = 0
             /\ empty_response_count = 0
    /\ last_action_time = NoTimes
    /\ now = 0
    /\ frame_sig = NoSig
    /\ outcome = "none"
    /\ lookup = NoLookup
    /\ pruned = << >>
    /\ executed = << >>
    /\ emitted = << >>
    /\ rl_log = << >>
    /\ parse_in = NoParse
    /\ parse_out = NoResult
    /\ map_in = NoMapInput
    /\ map_out = NoMapOutput
    /\ SoloIdle

(* should_call_llm(t, sig) *)
GateStep(sig, t) ==
    /\ ~gate_out.done
    /\ last_llm_ts <= t
    /\ gate_out' = [done |-> TRUE, result |-> ShouldCallLlm(t, sig)]
    /\ now' = t
    /\ frame_sig' = sig
    /\ clock' = t
    /\ UNCHANGED << config, stop_event, pc, agentVars, last_action_time,
                    outcome, lookup, pruned, executed, emitted, rl_log,
                    parseVars, mapVars, paceVars, uiVars >>

NextGate == \E sig \in FrameSigs, t \in 1..MaxTime : GateStep(sig, t)

SpecGate == InitGate /\ [][NextGate]_vars

----------------------------------------------------------------------------
(* The UI and its agent threads.  Tk runs start_agent and stop_agent on    *)
(* the main thread, one callback at a time; the agent threads run          *)
(* GameAgent.run concurrently, so their steps interleave with the          *)
(* statements of a callback.  threads[i] is the position of the i-th       *)
(* thread created: "loop" at the while test, "tick" inside the body,       *)
(* "backoff" in the sleep of the exception handler, "dead" after run       *)
(* returned.  asked is the set of threads that were alive when Stop was    *)
(* clicked.  Clicks are taken whatever the state of the two buttons.       *)

MaxThreads == 10

Alive(i) == i \in DOMAIN threads /\ threads[i] # "dead"

(* A start_agent without the guard of its first line *)
StartGuardMissing == FALSE

(* self.agent_thread and self.agent_thread.is_alive() *)
StartGuard == agent_thread # 0 /\ Alive(agent_thread)

(* start_agent, the guard: return while the last thread is alive *)
StartCheck ==
    /\ ui_pc = "idle"
    /\ Len(threads) < MaxThreads
    /\ ui_pc' = IF StartGuard THEN "idle" ELSE "clear"
    /\ UNCHANGED << threads, agent_thread, asked, stop_event >>

(* start_agent: self.stop_event.clear() *)
StartClear ==
    /\ ui_pc = "clear"
    /\ stop_event' = FALSE
    /\ ui_pc' = "spawn"
    /\ UNCHANGED << threads, agent_thread, asked >>

(* start_agent: the agent is built and its thread stored and started; *)
(* building the agent can raise, which ends the callback              *)
StartSpawn(built) ==
    /\ ui_pc = "spawn"
    /\ ui_pc' = "idle"
    /\ IF built
       THEN /\ threads' = Append(threads, "loop")
            /\ agent_thread' = Len(threads) + 1
       ELSE UNCHANGED << threads, agent_thread >>
    /\ UNCHANGED << asked, stop_event >>

(* stop_agent *)
StopAgent ==
    /\ ui_pc = "idle"
    /\ stop_event' = TRUE
    /\ asked' = asked \cup { i \in DOMAIN threads : Alive(i) }
    /\ UNCHANGED << ui_pc, threads, agent_thread >>

(* GameAgent.run of thread i: the test of the while loop *)
ThreadPoll(i) ==
    /\ threads[i] = "loop"
    /\ threads' = [threads EXCEPT ![i] = IF LoopCondition THEN "tick"
                                                          ELSE "dead"]
    /\ UNCHANGED << ui_pc, agent_thread, asked, stop_event >>

(* GameAgent.run of thread i: the body of the loop ends, normally or by *)
(* an exception that the handler of line 254 catches                    *)
ThreadTickEnd(i, raised) ==
    /\ threads[i] = "tick"
    /\ threads' = [threads EXCEPT ![i] = IF raised THEN "backoff"
                                                   ELSE "loop"]
    /\ UNCHANGED << ui_pc, agent_thread, asked, stop_event >>

(* GameAgent.run of thread i: the sleep of the exception handler ends *)
ThreadBackoffEnd(i) ==
    /\ threads[i] = "backoff"
    /\ threads' = [threads EXCEPT ![i] = "loop"]
    /\ UNCHANGED << ui_pc, agent_thread, asked, stop_event >>

InitUi ==
    /\ config = CHOOSE c \in Configs : c.dry_run
    /\ clock = 0
    /\ stop_event = FALSE
    /\ pc = "loop"
    /\ last_llm_ts = 0
    /\ last_frame_sig = NoSig
    /\ cache = << >>
    /\ cooldown_until_ts = 0
    /\ empty_response_count = 0
    /\ last_action_time = NoTimes
    /\ now = 0
    /\ frame_sig = NoSig
    /\ outcome = "none"
    /\ lookup = NoLookup
    /\ pruned = << >>
    /\ executed = << >>
    /\ emitted = << >>
    /\ rl_log = << >>
    /\ parse_in = NoParse
    /\ parse_out = NoResult
    /\ map_in = NoMapInput
    /\ map_out = NoMapOutput
    /\ SoloIdle

NextUi ==
    /\ \/ StartCheck
       \/ StartClear
       \/ \E built \in BOOLEAN : StartSpawn(built)
       \/ StopAgent
       \/ \E i \in DOMAIN threads : ThreadPoll(i)
       \/ \E i \in DOMAIN threads, raised \in BOOLEAN : ThreadTickEnd(i, raised)
       \/ \E i \in DOMAIN threads : ThreadBackoffEnd(i)
    /\ UNCHANGED << config, clock, pc, agentVars, last_action_time, now,
                    frame_sig, outcome, lookup, pruned, executed, emitted,
                    rl_log, parseVars, mapVars, paceVars, gate_out >>

SpecUi == InitUi /\ [][NextUi]_vars

----------------------------------------------------------------------------
(* Properties *)

(* A step that is a tick: every tick reads the clock later than the last *)
IsTick == clock' # clock

InferenceOutcomes == {"infer", "llm_error", "parse_error"}

(* C1: a lookup never returns the actions of an entry whose age            *)
(* now - insertion timestamp exceeds cache_ttl_s, by exact key or by the   *)
(* similarity scan.                                                        *)
C1_LookupNeverReturnsExpired ==
    lookup.hit => now - lookup.ts <= config.cache_ttl_s

(* An expired entry similar to the frame was still in the dict when the    *)
(* lookup ran, and the lookup missed.                                      *)
C1_Witness ==
    /\ lookup.done
    /\ ~lookup.hit
    /\ \E i \in 1..Len(pruned) :
          HammingDistance(pruned[i].sig, frame_sig)
             <= config.frame_change_threshold

C3_CooldownMonotonic ==
    [][ cooldown_until_ts' >= cooldown_until_ts ]_vars

(* A cooldown was applied that ends before the one already in force *)
C3_Witness ==
    /\ outcome = "hit"
    /\ CooldownFor(lookup.actions) > 0
    /\ now + CooldownFor(lookup.actions) < cooldown_until_ts

(* C4: a rate-limit check of key K at time t with interval D denies and    *)
(* leaves the map unchanged when K has a last-fired time L with t - L < D; *)
(* otherwise it allows and sets K's last-fired time to t.                  *)
C4_RateLimitCheck ==
    \A i \in 1..Len(rl_log) :
       LET c == rl_log[i]
       IN  IF c.key \in DOMAIN c.before
              /\ c.t - c.before[c.key] < c.min_interval_s
           THEN c.denied /\ c.after = c.before
           ELSE /\ ~c.denied
                /\ DOMAIN c.after = DOMAIN c.before \cup {c.key}
                /\ c.after[c.key] = c.t
                /\ \A k \in DOMAIN c.before \ {c.key} :
                      c.after[k] = c.before[k]

(* A check was made exactly one interval after the key last fired *)
C4_Witness ==
    \E i \in 1..Len(rl_log) :
       /\ rl_log[i].key \in DOMAIN rl_log[i].before
       /\ rl_log[i].t - rl_log[i].before[rl_log[i].key]
             = rl_log[i].min_interval_s
       /\ ~rl_log[i].denied

(* The validity rules of the claim C5, stated on a decoded element *)
ValidItem(item, width, height) ==
    /\ item.isdict
    /\ item.type.k = "str"
    /\ item.type.v \in allowed
    /\ item.type.v = "move_mouse" =>
          /\ item.x.k = "int" /\ item.y.k = "int"
          /\ 0 <= item.x.v /\ item.x.v < width
          /\ 0 <= item.y.v /\ item.y.v < height
    /\ item.type.v \in KeyTypes =>
          item.key.k = "str" /\ item.key.v \notin {"", " "}
    /\ item.type.v = "wait" =>
          item.duration_s.k \in {"int", "float"} /\ item.duration_s.v > 0

ItemAction(item) ==
    IF item.type.v = "move_mouse"
    THEN Action("move_mouse", item.x, item.y, NoTxt, NoNum)
    ELSE IF item.type.v \in KeyTypes
    THEN Action(item.type.v, NoNum, NoNum, item.key, NoNum)
    ELSE IF item.type.v = "wait"
    THEN Action("wait", NoNum, NoNum, NoTxt, FloatVal(item.duration_s.v))
    ELSE Action(item.type.v, NoNum, NoNum, NoTxt, NoNum)

FirstThreeValid(payload, width, height) ==
    LET valid == SelectSeq(payload.items,
                           LAMBDA it : ValidItem(it, width, height))
        n == Min(3, Len(valid))
    IN  [ i \in 1..n |-> ItemAction(valid[i]) ]

(* C5: for every reply that decodes to a list, parse_actions returns the   *)
(* first three (or fewer) valid elements in their original order; invalid  *)
(* elements are dropped without affecting the others.                      *)
C5_ParseReturnsFirstThreeValid ==
    (parse_out.done /\ parse_in.payload.islist)
    => /\ ~parse_out.raised
       /\ parse_out.actions =
             FirstThreeValid(parse_in.payload, parse_in.width,
                             parse_in.height)

(* C6: while no inference has completed, a tick whose lookup misses always *)
(* makes an inference call, whatever the fingerprint.                      *)
C6_FirstTickInfers ==
    [][ (IsTick /\ lookup'.done /\ ~lookup'.hit /\ last_frame_sig = NoSig)
        => outcome' \in InferenceOutcomes ]_vars

(* An inference call was made and failed with no inference completed yet *)
C6_Witness ==
    /\ lookup.done
    /\ ~lookup.hit
    /\ last_frame_sig = NoSig
    /\ outcome = "llm_error"

LiveEntries(c, t) ==
    { c[i] : i \in { j \in 1..Len(c) : t - c[j].ts <= config.cache_ttl_s } }

C9_NoInferenceDuringCooldown ==
    [][ (IsTick /\ outcome' \in InferenceOutcomes)
        => now' >= cooldown_until_ts ]_vars

(* A changed frame was declined only because the cooldown was running *)
C9_Witness ==
    /\ outcome = "skip"
    /\ now < cooldown_until_ts
    /\ last_frame_sig # NoSig
    /\ HammingDistance(frame_sig, last_frame_sig)
          >= config.frame_change_threshold

----------------------------------------------------------------------------
----------------------------------------------------------------------------
(* The ticks that ended in the except clause of run() *)
ErrorOutcomes == {"capture_error", "llm_error", "parse_error"}

(* C12: an exception raised inside a tick is caught inside run(): the     *)
(* tick sleeps the fixed backoff and run() is back at the top of its loop, *)
(* where the next tick begins unless the stop event is set; run() returns  *)
(* only when the stop event is set, never because of an exception.         *)
C12_ExceptionsAreCaught ==
    [][ /\ (IsTick /\ outcome' \in ErrorOutcomes)
            => /\ pc' = "loop"
               /\ clock' = now' + ErrorBackoff
               /\ stop_event' = stop_event
        /\ pc' = "returned" => stop_event ]_vars

(* parse_actions raised, the backoff was slept and the loop goes on *)
C12_Witness ==
    /\ outcome = "parse_error"
    /\ clock = now + ErrorBackoff
    /\ LoopCondition

----------------------------------------------------------------------------
(* C13: a tick in which capture or the inference call raises aborts that   *)
(* tick only: it executes nothing, adds no cache entry, and leaves the     *)
(* last-inference timestamp, the last-inferred fingerprint, the            *)
(* suppressed-until time and the empty-result counter as they were.        *)
C13_FailedTickChangesNothing ==
    [][ (IsTick /\ outcome' \in {"capture_error", "llm_error"})
        => /\ executed' = << >>
           /\ emitted' = << >>
           /\ last_action_time' = last_action_time
           /\ \A i \in 1..Len(cache') :
                 \E j \in 1..Len(cache) : cache'[i] = cache[j]
           /\ last_llm_ts' = last_llm_ts
           /\ last_frame_sig' = last_frame_sig
           /\ cooldown_until_ts' = cooldown_until_ts
           /\ empty_response_count' = empty_response_count ]_vars

(* The inference call raised in an agent that had inferred before and     *)
(* holds a cached batch                                                   *)
C13_Witness ==
    /\ outcome = "llm_error"
    /\ last_frame_sig # NoSig
    /\ last_llm_ts > 0
    /\ Len(cache) > 0

----------------------------------------------------------------------------
(* C14: the stop event is polled at the top of each tick.  Once it is set  *)
(* no tick begins, and the next thing run() does is return: the tick that  *)
(* was in flight when it was set has finished, its sleep included.         *)
C14_StopEndsTheLoop ==
    [][ /\ stop_event => ~IsTick
        /\ (stop_event /\ pc = "loop")
              => /\ pc' = "returned"
                 /\ UNCHANGED << clock, agentVars, last_action_time,
                                 executed, emitted >> ]_vars

(* run() returned after an inference tick, with time left for more ticks *)
C14_Witness ==
    /\ pc = "returned"
    /\ outcome = "infer"
    /\ clock < MaxTime

----------------------------------------------------------------------------
(* The commands execute() puts through the rate limiter, and those it     *)
(* performs unconditionally                                               *)
RateLimited(a) ==
    a.type \in {"click_left", "click_right", "press_key", "release_key"}

Unlimited(a) == a.type \in {"move_mouse", "wait"}

(* The device operation that performs command a *)
OpName(a) ==
    CASE a.type = "move_mouse" -> "position"
      [] a.type \in {"click_left", "click_right"} -> "click"
      [] a.type = "press_key" -> "press"
      [] a.type = "release_key" -> "release"
      [] a.type = "wait" -> "sleep"
      [] OTHER -> "none"

(* C15: with dry_run off the executor works through the batch in order:   *)
(* the operations performed and the limiter checks made follow the order   *)
(* of the commands; every rate-limited command, also one that comes after  *)
(* a denied command, gets its own check and is performed exactly when that *)
(* check allows it; a mouse move or a wait is performed wherever it stands.*)
C15_BatchInOrderDeniedSkipped ==
    (~config.dry_run /\ executed # << >>)
    => LET batch == executed[1]
       IN  /\ \A k \in 1..Len(emitted) :
                 /\ emitted[k].idx \in 1..Len(batch)
                 /\ emitted[k].op = OpName(batch[emitted[k].idx])
                 /\ k > 1 => emitted[k - 1].idx < emitted[k].idx
           /\ \A j \in 1..Len(rl_log) :
                 /\ rl_log[j].idx \in 1..Len(batch)
                 /\ RateLimited(batch[rl_log[j].idx])
                 /\ j > 1 => rl_log[j - 1].idx < rl_log[j].idx
           /\ \A i \in 1..Len(batch) :
                 LET performed == \E k \in 1..Len(emitted) :
                                     emitted[k].idx = i
                 IN  /\ RateLimited(batch[i])
                        => \E j \in 1..Len(rl_log) :
                              /\ rl_log[j].idx = i
                              /\ rl_log[j].denied <=> ~performed
                     /\ Unlimited(batch[i]) => performed

(* A command was denied and a later command of the same batch was checked *)
(* by the limiter and performed                                           *)
C15_Witness ==
    /\ ~config.dry_run
    /\ \E j \in 1..Len(rl_log), k \in 1..Len(emitted) :
          /\ rl_log[j].denied
          /\ emitted[k].idx > rl_log[j].idx
          /\ \E l \in 1..Len(rl_log) : rl_log[l].idx = emitted[k].idx

----------------------------------------------------------------------------
(* The durations of a configuration are all positive *)
PositiveDurations(c) ==
    /\ c.llm_interval_s > 0
    /\ c.cache_ttl_s > 0
    /\ c.cooldown_default_s > 0
    /\ c.cooldown_key_tap_s > 0
    /\ c.click_min_interval_s > 0
    /\ c.key_min_interval_s > 0

(* C16: an agent with a non-positive duration in its configuration is     *)
(* rejected when it is constructed, so an agent that exists and has run a  *)
(* tick has positive durations only.                                       *)
C16_MisconfigurationRejected ==
    outcome # "none" => PositiveDurations(config)

----------------------------------------------------------------------------
(* C17: after _apply_cooldown(batch, now) the suppressed-until time is    *)
(* unchanged for an empty batch, equals max(previous, now + default       *)
(* cooldown) for a non-empty batch without key actions, and is at least    *)
(* now + key cooldown and at least now + default cooldown for a batch with *)
(* a key action.  run() calls _apply_cooldown on every cache hit and on    *)
(* every inference that yields a non-empty batch.                          *)
C17_CooldownAfterBatch ==
    [][ (IsTick /\ (outcome' = "hit"
                      \/ (outcome' = "infer" /\ Len(executed'[1]) > 0)))
        => LET batch == executed'[1]
               keyed == \E i \in 1..Len(batch) :
                           batch[i].type \in
                              {"tap_key", "press_key", "release_key"}
           IN  IF Len(batch) = 0
               THEN cooldown_until_ts' = cooldown_until_ts
               ELSE IF ~keyed
               THEN cooldown_until_ts' =
                       Max(cooldown_until_ts,
                           now' + config.cooldown_default_s)
               ELSE /\ cooldown_until_ts' >=
                          now' + config.cooldown_key_tap_s
                    /\ cooldown_until_ts' >=
                          now' + config.cooldown_default_s ]_vars

----------------------------------------------------------------------------
(* n is an integer nearest to the fraction p / q (q > 0) *)
NearestTo(n, p, q) ==
    LET d == n * q - p
    IN  2 * (IF d < 0 THEN -d ELSE d) <= q

(* C18: map_to_screen(x, y) is the point                                  *)
(* (monitor_left + x * monitor_width / capture_width,                     *)
(*  monitor_top + y * monitor_height / capture_height)                    *)
(* with each component rounded to the nearest integer; the mapper of the  *)
(* test maps (250, 125) to (600, 450).                                    *)
C18_MapToScreen ==
    map_out.done
    => LET m == map_in.mapper
       IN  /\ NearestTo(map_out.xy[1],
                        m.monitor_left * m.capture_width
                           + map_in.x * m.monitor_width,
                        m.capture_width)
           /\ NearestTo(map_out.xy[2],
                        m.monitor_top * m.capture_height
                           + map_in.y * m.monitor_height,
                        m.capture_height)
           /\ map_in = TestMapInput => map_out.xy = << 600, 450 >>

(* The point of the test was mapped *)
C18_Witness ==
    /\ map_out.done
    /\ map_in = TestMapInput
    /\ map_out.xy = << 600, 450 >>

----------------------------------------------------------------------------
----------------------------------------------------------------------------
----------------------------------------------------------------------------
(* C21: at the end of an error-free tick the loop sleeps                  *)
(* max(0, loop_delay_s - elapsed): never a negative time, nothing when the *)
(* tick already took loop_delay_s or longer, and so the next tick starts   *)
(* at least loop_delay_s after this one started.                           *)
C21_PacingSleep ==
    pace_out.done
    => /\ pace_out.slept = Max(0, pace_in.loop_delay_s - pace_in.elapsed)
       /\ pace_out.slept >= 0
       /\ pace_in.elapsed >= pace_in.loop_delay_s => pace_out.slept = 0
       /\ pace_out.next_start - pace_in.loop_start >= pace_in.loop_delay_s

(* A tick shorter than the cadence was topped up to exactly the cadence *)
C21_Witness ==
    /\ pace_out.done
    /\ pace_in.elapsed > 0
    /\ pace_out.slept > 0
    /\ pace_out.next_start - pace_in.loop_start = pace_in.loop_delay_s

----------------------------------------------------------------------------
(* The entries of cache c that hold an empty batch, are live at time t and *)
(* lie within the threshold of fingerprint sig                             *)
LiveEmptyNear(c, sig, t) ==
    { i \in 1..Len(c) :
         /\ Len(c[i].actions) = 0
         /\ t - c[i].ts <= config.cache_ttl_s
         /\ HammingDistance(c[i].sig, sig) <= config.frame_change_threshold }

----------------------------------------------------------------------------
(* C23: a lookup returns the live entry stored under exactly the           *)
(* looked-up fingerprint if there is one, whatever other live entries      *)
(* within the threshold were inserted before it; otherwise it returns the  *)
(* earliest-inserted live entry within the threshold; otherwise it misses. *)
C23_ExactKeyThenEarliestSimilar ==
    [][ (lookup'.done /\ ~lookup.done)
        => LET live == { i \in 1..Len(cache) :
                            now' - cache[i].ts <= config.cache_ttl_s }
               exact == { i \in live : cache[i].sig = frame_sig' }
               near == { i \in live :
                           HammingDistance(cache[i].sig, frame_sig')
                              <= config.frame_change_threshold }
               returns(i) == /\ lookup'.hit
                             /\ lookup'.sig = cache[i].sig
                             /\ lookup'.ts = cache[i].ts
                             /\ lookup'.actions = cache[i].actions
           IN  IF exact # {} THEN \E i \in exact : returns(i)
               ELSE IF near # {}
               THEN \E i \in near : /\ \A j \in near : i <= j
                                    /\ returns(i)
               ELSE ~lookup'.hit ]_vars

(* The exact entry was returned although a live entry within the     *)
(* threshold had been inserted before it                             *)
C23_Witness ==
    /\ lookup.hit
    /\ lookup.sig = frame_sig
    /\ \E i, j \in 1..Len(cache) :
          /\ i < j
          /\ cache[j].sig = frame_sig
          /\ now - cache[i].ts <= config.cache_ttl_s
          /\ HammingDistance(cache[i].sig, frame_sig)
                <= config.frame_change_threshold

----------------------------------------------------------------------------
(* C24: a batch executed from the cache at time now was produced by an    *)
(* inference call at a time t with now - t <= cache_ttl_s.  An entry       *)
(* enters the cache only in an inference tick, stamped with that tick's    *)
(* now and holding the batch it executed; a hit executes the batch of an   *)
(* entry that was already there, of age at most the TTL, and leaves every  *)
(* entry's timestamp as it was.                                            *)
C24_ReplayStalenessBounded ==
    [][ /\ \A i \in 1..Len(cache') :
              (\A j \in 1..Len(cache) : cache[j] # cache'[i])
              => /\ IsTick
                 /\ outcome' = "infer"
                 /\ cache'[i].sig = frame_sig'
                 /\ cache'[i].ts = now'
                 /\ cache'[i].actions = executed'[1]
        /\ (IsTick /\ outcome' = "hit")
           => /\ executed' = << lookup'.actions >>
              /\ lookup'.ts <= now'
              /\ now' - lookup'.ts <= config.cache_ttl_s
              /\ \E j \in 1..Len(cache) :
                    /\ cache[j].sig = lookup'.sig
                    /\ cache[j].ts = lookup'.ts
                    /\ cache[j].actions = lookup'.actions ]_vars

(* A batch was replayed when its entry was exactly as old as the TTL *)
C24_Witness ==
    /\ outcome = "hit"
    /\ Len(lookup.actions) > 0
    /\ config.cache_ttl_s > 0
    /\ now - lookup.ts = config.cache_ttl_s
    /\ \E i \in 1..Len(cache) :
          cache[i].sig = lookup.sig /\ cache[i].ts = lookup.ts

----------------------------------------------------------------------------
(* C25: with dry_run off, every command of a batch, whichever of the seven *)
(* variants it is, results in its device operation (or sleep) unless its   *)
(* own rate-limit check denies it.                                         *)
C25_EveryVariantPerformed ==
    (~config.dry_run /\ executed # << >>)
    => LET batch == executed[1]
       IN  \A i \in 1..Len(batch) :
              batch[i].type \in allowed
              => \/ \E k \in 1..Len(emitted) : emitted[k].idx = i
                 \/ \E j \in 1..Len(rl_log) :
                       rl_log[j].idx = i /\ rl_log[j].denied

----------------------------------------------------------------------------
(* The limiter key of command a and the minimum interval that applies to *)
(* it, as the claim C26 names them                                       *)
LimiterKeyOf(a) ==
    << a.type, IF a.type \in {"press_key", "release_key"}
               THEN a.key.v ELSE "" >>

MinIntervalOf(a) ==
    IF a.type \in {"click_left", "click_right"}
    THEN config.click_min_interval_s
    ELSE config.key_min_interval_s

(* C26: over any sequence of batches executed with dry_run off, two       *)
(* emissions of the same rate-limited key are at least that key's minimum  *)
(* interval apart, and a key's limiter state is read and changed only by   *)
(* commands of that key.  Inductively, per executed batch: the limiter map *)
(* holds for each key the time of its latest emission; a command is        *)
(* performed exactly when its own key was never performed or was last      *)
(* performed at least the interval earlier; and the map changes only at    *)
(* the keys performed in the batch.                                        *)
C26_RateLimitPerKey ==
    [][ (~config.dry_run /\ clock' # clock /\ executed' # << >>)
        => LET batch == executed'[1]
               log == rl_log'
               fired(k) == { j \in 1..Len(log) :
                               log[j].key = k /\ ~log[j].denied }
               latest(S) == CHOOSE j \in S : \A l \in S : l <= j
           IN  /\ \A j \in 1..Len(log) :
                     LET a == batch[log[j].idx]
                         k == LimiterKeyOf(a)
                         before == { l \in fired(k) : l < j }
                         known == before # {} \/ k \in DOMAIN last_action_time
                         prev == IF before # {} THEN log[latest(before)].t
                                 ELSE last_action_time[k]
                     IN  /\ log[j].key = k
                         /\ (\E n \in 1..Len(emitted') :
                                emitted'[n].idx = log[j].idx)
                               <=> ~log[j].denied
                         /\ log[j].denied
                               <=> (known /\ log[j].t - prev < MinIntervalOf(a))
                         /\ (~log[j].denied /\ known)
                               => log[j].t - prev >= MinIntervalOf(a)
               /\ DOMAIN last_action_time' =
                     DOMAIN last_action_time
                        \cup { log[j].key : j \in { l \in 1..Len(log) :
                                                      ~log[l].denied } }
               /\ \A k \in DOMAIN last_action_time' :
                     last_action_time'[k] =
                        IF fired(k) # {} THEN log[latest(fired(k))].t
                        ELSE last_action_time[k] ]_vars

(* In one batch a second press of key e was denied and the press of key f *)
(* after it was performed, while e had been performed in an earlier batch *)
(* too                                                                    *)
C26_Witness ==
    /\ ~config.dry_run
    /\ \E j, l \in 1..Len(rl_log) :
          /\ j < l
          /\ rl_log[j].key = << "press_key", "e" >>
          /\ rl_log[l].key = << "press_key", "f" >>
          /\ rl_log[j].denied
          /\ ~rl_log[l].denied
    /\ rl_log[1].key \in DOMAIN rl_log[1].before
    /\ ~rl_log[1].denied

----------------------------------------------------------------------------
(* C27: any two distinct entries present in the cache have fingerprints   *)
(* more than frame_change_threshold apart; an entry is stored only in a    *)
(* tick whose lookup, after pruning, found no live entry within the        *)
(* threshold, so a store overwrites nothing and adds nothing similar to    *)
(* what is there.                                                          *)
C27_CacheEntriesPairwiseDistant ==
    /\ \A i, j \in 1..Len(cache) :
          i # j => HammingDistance(cache[i].sig, cache[j].sig)
                      > config.frame_change_threshold
    /\ outcome = "infer"
       => /\ lookup.done /\ ~lookup.hit
          /\ Len(cache) > 0
          /\ cache[Len(cache)].sig = frame_sig
          /\ cache[Len(cache)].ts = now
          /\ \A i \in 1..(Len(cache) - 1) : cache[i].ts < now

(* A second entry was stored next to a live one *)
C27_Witness ==
    /\ outcome = "infer"
    /\ Len(cache) = 2
    /\ now - cache[1].ts <= config.cache_ttl_s

----------------------------------------------------------------------------
(* C28: should_call_llm(now, fingerprint) equals                          *)
(* (now >= suppressed-until) and (no prior inference or the fingerprint is *)
(* at least the threshold away from the last-inferred one) in every state, *)
(* whatever the last-inference timestamp, llm_interval_s and the           *)
(* empty-result counter are: none of the three influences the decision.    *)
C28_GateIgnoresIntervalAndCounter ==
    gate_out.done
    => gate_out.result =
          (/\ now >= cooldown_until_ts
           /\ \/ last_frame_sig = NoSig
              \/ HammingDistance(frame_sig, last_frame_sig)
                    >= config.frame_change_threshold)

(* After the interval and three empty results the gate declined a frame *)
(* that had not changed                                                 *)
C28_Witness ==
    /\ gate_out.done
    /\ ~gate_out.result
    /\ now >= cooldown_until_ts
    /\ now - last_llm_ts >= config.llm_interval_s
    /\ config.llm_interval_s > 0
    /\ empty_response_count >= EmptyEscapeCount

----------------------------------------------------------------------------
(* C29: under any interleaving of Start and Stop clicks with the agent    *)
(* threads' progress, at most one agent loop thread is alive at any time, *)
(* and no step clears the stop event while a thread that was asked to     *)
(* stop is still alive.                                                    *)
AtMostOneAlive ==
    \A i, j \in DOMAIN threads : (Alive(i) /\ Alive(j)) => i = j

C29_OneThreadNoResume ==
    /\ []AtMostOneAlive
    /\ [][(stop_event /\ ~stop_event')
             => \A i \in asked : ~Alive(i)]_vars

(* The first thread was asked to stop and returned; a second Start cleared *)
(* the event and its thread is inside the loop body                        *)
C29_Witness ==
    /\ Len(threads) >= 2
    /\ 1 \in asked
    /\ threads[1] = "dead"
    /\ threads[2] = "tick"
    /\ ~stop_event

====
